---- MODULE Spec2Model ----
(***************************************************************************)
(* Model of src/2D/2d_sim.py: 2D ray tracing of photons against bounded    *)
(* line-segment surfaces.                                                  *)
(*                                                                         *)
(* Numbers.  The program computes in IEEE-754 binary floating point        *)
(* (numpy float64).  The model keeps that arithmetic: every operation      *)
(* returns the exactly computed result rounded to nearest, ties to even,   *)
(* and division by zero, infinities and NaN behave as in numpy (a warning, *)
(* no exception).  Two things are scaled down so that the values fit the   *)
(* model checker's integers: the significand has Precision bits instead of *)
(* 53, and the exponent is unbounded (no overflow or underflow).  Zero is  *)
(* unsigned: x/0 takes the sign of x.                                      *)
(***************************************************************************)
EXTENDS Integers, Sequences, FiniteSets, TLC

\* Number of significand bits of the model's floating point.
Precision == 12

Abs(x) == IF x < 0 THEN -x ELSE x
Sgn(x) == IF x < 0 THEN -1 ELSE IF x > 0 THEN 1 ELSE 0
Min(x, y) == IF x < y THEN x ELSE y

RECURSIVE BitLen(_)
BitLen(n) == IF n = 0 THEN 0 ELSE 1 + BitLen(n \div 2)

RECURSIVE ISqrtIn(_, _, _)
\* Largest s in lo..hi with s*s <= n (lo*lo <= n < (hi+1)*(hi+1)).
ISqrtIn(n, lo, hi) ==
    IF lo = hi THEN lo
    ELSE LET mid == (lo + hi + 1) \div 2
         IN  IF mid * mid <= n THEN ISqrtIn(n, mid, hi)
                               ELSE ISqrtIn(n, lo, mid - 1)
ISqrt(n) == ISqrtIn(n, 0, 2 ^ ((BitLen(n) + 1) \div 2))

(***************************************************************************)
(* Floating-point values: finite m * 2^e with 2^(Precision-1) <= |m| <     *)
(* 2^Precision (or m = 0, e = 0), the two infinities, and NaN.             *)
(***************************************************************************)
NaN  == [k |-> "nan", m |-> 0, e |-> 0]
PInf == [k |-> "inf", m |-> 1, e |-> 0]
NInf == [k |-> "inf", m |-> -1, e |-> 0]
Zero == [k |-> "fin", m |-> 0, e |-> 0]

IsNaN(a) == a.k = "nan"
IsInf(a) == a.k = "inf"
IsFin(a) == a.k = "fin"
IsNeg(a) == a.k # "nan" /\ a.m < 0
IsZero(a) == a.k = "fin" /\ a.m = 0

\* The exact value n * 2^e rounded to Precision bits, to nearest, ties to even.
Round(n, e) ==
    IF n = 0 THEN Zero
    ELSE LET a == Abs(n)
             b == BitLen(a)
         IN  IF b <= Precision
             THEN [k |-> "fin", m |-> n * 2 ^ (Precision - b),
                   e |-> e - (Precision - b)]
             ELSE LET s  == b - Precision
                      q  == a \div (2 ^ s)
                      r  == a % (2 ^ s)
                      h  == 2 ^ (s - 1)
                      q1 == IF r > h \/ (r = h /\ q % 2 = 1) THEN q + 1 ELSE q
                  IN  IF q1 = 2 ^ Precision
                      THEN [k |-> "fin", m |-> Sgn(n) * 2 ^ (Precision - 1),
                            e |-> e + s + 1]
                      ELSE [k |-> "fin", m |-> Sgn(n) * q1, e |-> e + s]

\* A float with an integer value.
FromInt(n) == Round(n, 0)

FNeg(a) == IF IsNaN(a) THEN NaN ELSE [a EXCEPT !.m = -a.m]

FAdd(a, b) ==
    IF IsNaN(a) \/ IsNaN(b) THEN NaN
    ELSE IF IsInf(a) THEN (IF IsInf(b) /\ a.m # b.m THEN NaN ELSE a)
    ELSE IF IsInf(b) THEN b
    ELSE IF a.m = 0 THEN b
    ELSE IF b.m = 0 THEN a
    \* the smaller operand is below a quarter of the larger one's last place
    ELSE IF a.e - b.e > Precision + 2 THEN a
    ELSE IF b.e - a.e > Precision + 2 THEN b
    ELSE LET e0 == Min(a.e, b.e)
         IN  Round(a.m * 2 ^ (a.e - e0) + b.m * 2 ^ (b.e - e0), e0)

FSub(a, b) == FAdd(a, FNeg(b))

FMul(a, b) ==
    IF IsNaN(a) \/ IsNaN(b) THEN NaN
    ELSE IF IsInf(a) \/ IsInf(b)
         THEN (IF a.m = 0 \/ b.m = 0 THEN NaN
               ELSE IF Sgn(a.m) = Sgn(b.m) THEN PInf ELSE NInf)
    ELSE Round(a.m * b.m, a.e + b.e)

FDiv(a, b) ==
    IF IsNaN(a) \/ IsNaN(b) THEN NaN
    ELSE IF IsInf(a)
         THEN (IF IsInf(b) THEN NaN
               ELSE IF Sgn(a.m) * (IF b.m < 0 THEN -1 ELSE 1) > 0 THEN PInf
               ELSE NInf)
    ELSE IF IsInf(b) THEN Zero
    ELSE IF b.m = 0
         THEN (IF a.m = 0 THEN NaN ELSE IF a.m > 0 THEN PInf ELSE NInf)
    ELSE IF a.m = 0 THEN Zero
    ELSE LET n == Abs(a.m) * 2 ^ (Precision + 2)
             q == n \div Abs(b.m)
             r == n % Abs(b.m)
             \* the quotient with a sticky bit appended
             qs == 2 * q + (IF r = 0 THEN 0 ELSE 1)
         IN  Round(Sgn(a.m) * Sgn(b.m) * qs, a.e - b.e - (Precision + 2) - 1)

FSqrt(a) ==
    IF IsNaN(a) \/ IsNeg(a) THEN NaN
    ELSE IF IsInf(a) THEN PInf
    ELSE IF a.m = 0 THEN Zero
    ELSE LET sh == IF (a.e - (Precision + 2)) % 2 = 0 THEN Precision + 2
                   ELSE Precision + 3
             n  == a.m * 2 ^ sh
             s  == ISqrt(n)
             ss == 2 * s + (IF s * s = n THEN 0 ELSE 1)
         IN  Round(ss, ((a.e - sh) \div 2) - 1)

\* Comparisons: every comparison with NaN is false.
FLt(a, b) ==
    IF IsNaN(a) \/ IsNaN(b) \/ a = b THEN FALSE ELSE IsNeg(FSub(a, b))
FGt(a, b) == FLt(b, a)
FEq(a, b) == ~IsNaN(a) /\ ~IsNaN(b) /\ a = b
FLe(a, b) == FLt(a, b) \/ FEq(a, b)

(***************************************************************************)
(* numpy arrays of two floats, and the array operations the program uses.  *)
(***************************************************************************)
Vec(ix, iy) == <<FromInt(ix), FromInt(iy)>>
VSub(a, b) == <<FSub(a[1], b[1]), FSub(a[2], b[2])>>
VAdd(a, b) == <<FAdd(a[1], b[1]), FAdd(a[2], b[2])>>
SMul(t, v) == <<FMul(t, v[1]), FMul(t, v[2])>>
VDiv(v, t) == <<FDiv(v[1], t), FDiv(v[2], t)>>
dot(a, b) == FAdd(FMul(a[1], b[1]), FMul(a[2], b[2]))
HasNaN(v) == IsNaN(v[1]) \/ IsNaN(v[2])

\* The literal 0.01 of _find_intersections: the float nearest to 1/100.
Eps == FDiv(FromInt(1), FromInt(100))

(***************************************************************************)
(* The classes the program imports: Photon, Surface, Mirror, Interaction.  *)
(***************************************************************************)
Photon(pos, direc) == [pos |-> pos, direc |-> direc]

\* A surface starts at pos and extends for length along adj, the tangent
\* (the normal turned a quarter clockwise, as create_boundaries lays its
\* edges out).
MkSurface(kind, pos, norm, length) ==
    [kind |-> kind, pos |-> pos, norm |-> norm, length |-> length,
     adj |-> <<norm[2], FNeg(norm[1])>>]
Surface(pos, norm, length) == MkSurface("Surface", pos, norm, length)
Mirror(pos, norm, length) == MkSurface("Mirror", pos, norm, length)

None == [tag |-> "None"]
Interaction(surf, time, point) ==
    [tag |-> "Interaction", surf |-> surf, time |-> time, point |-> point]
IsInteraction(h) == h.tag = "Interaction"

\* An exception leaving a function.
Raise(type, msg) == [tag |-> "Raise", type |-> type, msg |-> msg]
IsRaise(r) == r.tag = "Raise"

create_boundaries(boundaries, reflective) ==
    LET xmin == boundaries[1]
        xmax == boundaries[2]
        ymin == boundaries[3]
        ymax == boundaries[4]
        xlen == FromInt(xmax - xmin)
        ylen == FromInt(ymax - ymin)
        edge_type == IF reflective THEN "Mirror" ELSE "Surface"
        bottom_left  == Vec(xmin, ymin)
        bottom_right == Vec(xmax, ymin)
        top_right    == Vec(xmax, ymax)
        top_left     == Vec(xmin, ymax)
        left_norm   == Vec(1, 0)
        bottom_norm == Vec(0, 1)
        right_norm  == Vec(-1, 0)
        top_norm    == Vec(0, -1)
    IN  << MkSurface(edge_type, bottom_left, bottom_norm, xlen),
           MkSurface(edge_type, bottom_right, right_norm, ylen),
           MkSurface(edge_type, top_right, top_norm, xlen),
           MkSurface(edge_type, top_left, left_norm, ylen) >>

_intersect_time(p, surf) ==
    FDiv(dot(VSub(surf.pos, p.pos), surf.norm), dot(p.direc, surf.norm))

_vector_len(v) == FSqrt(dot(v, v))

_norm(v) == VDiv(v, _vector_len(v))

\* _find_intersections without the subtraction of line 104: the photon is put
\* on the strike point itself.
_find_intersections_on_wall(p, surf) ==
    LET t == _intersect_time(p, surf)
    IN  IF FLt(t, Zero) THEN None
        ELSE LET point == VAdd(p.pos, SMul(t, p.direc))
                 dist  == VSub(point, surf.pos)
             IN  IF \/ FGt(_vector_len(dist), surf.length)
                    \/ FEq(dot(_norm(dist), surf.adj), FromInt(-1))
                 THEN None
                 ELSE Interaction(surf, t, point)

_find_intersections(p, surf) ==
    LET t == _intersect_time(p, surf)
    IN  IF FLt(t, Zero) THEN None
        ELSE LET point == VAdd(p.pos, SMul(t, p.direc))
                 dist  == VSub(point, surf.pos)
             IN  IF \/ FGt(_vector_len(dist), surf.length)
                    \/ FEq(dot(_norm(dist), surf.adj), FromInt(-1))
                 THEN None
                 ELSE Interaction(surf, t,
                          VAdd(p.pos, SMul(FSub(t, FMul(t, Eps)), p.direc)))

RECURSIVE MinFrom(_, _, _)
\* Python's min(hits, key=...): the first item is kept until a later one
\* has a strictly smaller key.
MinFrom(hits, i, best) ==
    IF i > Len(hits) THEN best
    ELSE MinFrom(hits, i + 1,
                 IF FLt(hits[i].time, best.time) THEN hits[i] ELSE best)
PyMin(hits) ==
    IF hits = <<>> THEN Raise("ValueError", "min() arg is an empty sequence")
    ELSE MinFrom(hits, 2, hits[1])

_closest_hit(p, surfs) ==
    LET all  == [w \in 1..Len(surfs) |-> _find_intersections(p, surfs[w])]
        hits == SelectSeq(all, IsInteraction)
    IN  PyMin(hits)

\* surf.interact(p, point) of the two surface classes: both move the photon
\* to the point; a mirror also reflects its direction about the normal and
\* normalizes it again.
interact(surf, p, point) ==
    IF surf.kind = "Mirror"
    THEN [pos |-> point,
          direc |-> _norm(VSub(p.direc,
                      SMul(FMul(FromInt(2), dot(p.direc, surf.norm)),
                           surf.norm)))]
    ELSE [pos |-> point, direc |-> p.direc]

\* The photon after _sample_collision(p, surfs), given the collision found.
_sample_collision(p, coll) == interact(coll.surf, p, coll.point)

(***************************************************************************)
(* Inputs of trace.                                                        *)
(***************************************************************************)
MaxEvents == 2
MaxPhotons == 2

\* (xmin, xmax, ymin, ymax) of main.
Boundaries == <<-5, 5, -5, 5>>

MirrorBox  == create_boundaries(Boundaries, TRUE)
PassiveBox == create_boundaries(Boundaries, FALSE)
\* A scene that does not enclose the photons: two of the mirrored edges.
OpenScene  == SubSeq(MirrorBox, 1, 2)
Scenes == {MirrorBox, PassiveBox, OpenScene}

\* Photons given as an integer position and an integer vector along the
\* direction of travel, which is normalized to a unit direction.
PhotonSeeds ==
    { <<0, 0, 1, 0>>,     \* scenario 1: at the centre, along an edge normal
      <<-3, -3, 1, 1>>,   \* diagonal, into a corner region
      <<2, -1, 3, 4>>,    \* oblique
      <<-2, -1, -3, -4>>, \* aimed at the corner (-5, -5)
      <<0, -5, 1, 0>>,    \* on the bottom edge's line, parallel to it
      <<6, 0, 1, 0>> }    \* outside, heading away from every surface
Photons == { Photon(Vec(s[1], s[2]), _norm(Vec(s[3], s[4]))) : s \in PhotonSeeds }

(***************************************************************************)
(* trace(p_arr, surfs, n_events) as a state machine.                       *)
(***************************************************************************)
VARIABLES
    surfs,     \* the surfaces of the geometry
    n_events,  \* the number of interactions to track
    p_in,      \* the photons as given to trace
    p_arr,     \* the photons, as the interactions change them
    pi,        \* index in p_arr of the photon of the outer loop
    ev,        \* completed iterations of the inner loop
    coords,    \* the path of the current photon
    data,      \* the paths of the photons done
    pc,        \* "outer", "inner", "returned" or "raised"
    result,    \* what trace gave its caller: nothing yet, the paths, or an exception
    befores,   \* the current photon before each of its _sample_collision calls
    colls      \* what _closest_hit returned in each of them
vars == <<surfs, n_events, p_in, p_arr, pi, ev, coords, data, pc, result,
          befores, colls>>

Init ==
    /\ surfs \in Scenes
    /\ n_events \in 0..MaxEvents
    /\ p_in \in UNION {[1..n -> Photons] : n \in 1..MaxPhotons}
    /\ p_arr = p_in
    /\ pi = 1
    /\ ev = 0
    /\ coords = <<>>
    /\ data = <<>>
    /\ pc = "outer"
    /\ result = None
    /\ befores = <<>>
    /\ colls = <<>>

\* for p in p_arr: coords = np.zeros((1, 2)); coords[0] = p.pos
StartPhoton ==
    /\ pc = "outer"
    /\ pi <= Len(p_arr)
    /\ coords' = <<p_arr[pi].pos>>
    /\ ev' = 0
    /\ befores' = <<>>
    /\ colls' = <<>>
    /\ pc' = "inner"
    /\ UNCHANGED <<surfs, n_events, p_in, p_arr, pi, data, result>>

\* The iteration with the two statements of the loop body swapped: the
\* position is stacked before the collision is sampled.
TraceStep_StackFirst ==
    /\ pc = "inner"
    /\ ev < n_events
    /\ LET p    == p_arr[pi]
           coll == _closest_hit(p, surfs)
       IN  /\ IsInteraction(coll)
           /\ p_arr' = [p_arr EXCEPT ![pi] = _sample_collision(p, coll)]
           /\ coords' = Append(coords, p.pos)
           /\ befores' = Append(befores, p)
           /\ colls' = Append(colls, coll)
    /\ ev' = ev + 1
    /\ UNCHANGED <<surfs, n_events, p_in, pi, data, pc, result>>

\* One iteration of the inner loop: _sample_collision(p, surfs), then the
\* photon's position is stacked onto coords.
TraceStep ==
    /\ pc = "inner"
    /\ ev < n_events
    /\ LET p    == p_arr[pi]
           coll == _closest_hit(p, surfs)
       IN  /\ IsInteraction(coll)
           /\ LET q == _sample_collision(p, coll)
              IN  /\ p_arr' = [p_arr EXCEPT ![pi] = q]
                  /\ coords' = Append(coords, q.pos)
           /\ befores' = Append(befores, p)
           /\ colls' = Append(colls, coll)
    /\ ev' = ev + 1
    /\ UNCHANGED <<surfs, n_events, p_in, pi, data, pc, result>>

\* The same iteration when _closest_hit raises: nothing in trace catches the
\* exception, so it leaves trace.
TraceRaise ==
    /\ pc = "inner"
    /\ ev < n_events
    /\ LET p    == p_arr[pi]
           coll == _closest_hit(p, surfs)
       IN  /\ IsRaise(coll)
           /\ befores' = Append(befores, p)
           /\ colls' = Append(colls, coll)
           /\ result' = coll
    /\ pc' = "raised"
    /\ UNCHANGED <<surfs, n_events, p_in, p_arr, pi, ev, coords, data>>

\* data.append(coords), and on to the next photon.
FinishPhoton ==
    /\ pc = "inner"
    /\ ev = n_events
    /\ data' = Append(data, coords)
    /\ pi' = pi + 1
    /\ pc' = "outer"
    /\ UNCHANGED <<surfs, n_events, p_in, p_arr, ev, coords, result, befores,
                   colls>>

\* return data
Return ==
    /\ pc = "outer"
    /\ pi > Len(p_arr)
    /\ result' = [tag |-> "Paths", paths |-> data]
    /\ pc' = "returned"
    /\ UNCHANGED <<surfs, n_events, p_in, p_arr, pi, ev, coords, data,
                   befores, colls>>

Next == StartPhoton \/ TraceStep \/ TraceRaise \/ FinishPhoton \/ Return

Spec == Init /\ [][Next]_vars

(***************************************************************************)
(* Properties.                                                             *)
(***************************************************************************)
FAbs(a) == IF IsNeg(a) THEN FNeg(a) ELSE a

\* Rounding tolerance: eight units in the last place of the largest
\* coordinates of the scene (8 <= |x| < 16).
Tol == Round(1, 7 - Precision)
Within(u, v) ==
    /\ FLe(FAbs(FSub(u[1], v[1])), Tol)
    /\ FLe(FAbs(FSub(u[2], v[2])), Tol)

\* The analytic strike point position + t * direction.
Strike(p, surf) == VAdd(p.pos, SMul(_intersect_time(p, surf), p.direc))

\* The analytic intersection exists: t is finite and not negative, and the
\* strike point lies on the segment, at least margin away from its two ends.
OnSegment(p, surf, margin) ==
    LET t == _intersect_time(p, surf)
        a == dot(VSub(Strike(p, surf), surf.pos), surf.adj)
    IN  /\ IsFin(t)
        /\ ~FLt(t, Zero)
        /\ FLe(margin, a)
        /\ FLe(a, FSub(surf.length, margin))

Parallel(p, surf) == IsZero(dot(p.direc, surf.norm))

StrictlyInside(pos) ==
    /\ FLt(FromInt(Boundaries[1]), pos[1])
    /\ FLt(pos[1], FromInt(Boundaries[2]))
    /\ FLt(FromInt(Boundaries[3]), pos[2])
    /\ FLt(pos[2], FromInt(Boundaries[4]))

IsPrefix(s, t) == Len(s) <= Len(t) /\ SubSeq(t, 1, Len(s)) = s

\* C1: the Interaction _closest_hit returns is one _find_intersections made
\* for one of the surfaces, and its time is less than or equal to the time of
\* every Interaction the surfaces yield for that photon.
C1_ClosestHitIsNearest ==
    \A k \in DOMAIN colls :
        IsInteraction(colls[k]) =>
            /\ \E w \in DOMAIN surfs :
                   colls[k] = _find_intersections(befores[k], surfs[w])
            /\ \A w \in DOMAIN surfs :
                   LET h == _find_intersections(befores[k], surfs[w])
                   IN  IsInteraction(h) => FLe(colls[k].time, h.time)

\* C2: when no surface yields an intersection, _closest_hit signals a named
\* no-intersection error that carries the photon's state, not an
\* empty-collection error.
C2_NamedNoIntersectionError ==
    \A k \in DOMAIN colls :
        (\A w \in DOMAIN surfs :
             ~IsInteraction(_find_intersections(befores[k], surfs[w])))
        => /\ IsRaise(colls[k])
           /\ colls[k].type = "NoIntersection"
           /\ "particle" \in DOMAIN colls[k]

\* C3: once a photon has struck a passive surface, no later step computes a
\* collision for it (its path stops growing at the escape point).
C3_EscapedPhotonNotAdvanced ==
    \A k \in DOMAIN colls :
        (/\ IsInteraction(colls[k])
         /\ IsFin(colls[k].time)
         /\ colls[k].surf.kind = "Surface")
        => k = Len(colls)

\* C4: _find_intersections returns None for a surface the photon travels
\* parallel to, so _closest_hit never chooses such a surface.
C4_ParallelSurfaceNeverHit ==
    \A k \in DOMAIN colls :
        /\ \A w \in DOMAIN surfs :
               Parallel(befores[k], surfs[w])
               => _find_intersections(befores[k], surfs[w]) = None
        /\ IsInteraction(colls[k]) => ~Parallel(befores[k], colls[k].surf)

\* C5: the collision that follows a step which placed the photon at the
\* inset strike point of a surface is not with that surface.
C5_NextHitIsAnotherSurface ==
    \A k \in DOMAIN colls :
        (k > 1 /\ IsInteraction(colls[k]) /\ IsFin(colls[k - 1].time))
        => colls[k].surf # colls[k - 1].surf

C7_PathsInv ==
    /\ Len(data) = (IF pc = "returned" THEN Len(p_in) ELSE pi - 1)
    /\ \A k \in DOMAIN data :
           /\ data[k][1] = p_in[k].pos
           /\ Len(data[k]) <= n_events + 1
           /\ data[k][Len(data[k])] = p_arr[k].pos
    /\ pc \in {"inner", "raised"} =>
           /\ coords[1] = p_in[pi].pos
           /\ Len(coords) = ev + 1
           /\ Len(coords) <= n_events + 1
           /\ coords[Len(coords)] = p_arr[pi].pos
    /\ pc = "returned" =>
           /\ result = [tag |-> "Paths", paths |-> data]
           /\ \A k \in DOMAIN p_in : data[k][1] = p_in[k].pos
C7_AppendOnly ==
    /\ IsPrefix(data, data')
    /\ Len(data') <= Len(data) + 1
    /\ (pc = "inner" /\ pc' # "outer") =>
           /\ IsPrefix(coords, coords')
           /\ Len(coords') <= Len(coords) + 1
    /\ (pc = "inner" /\ pc' = "outer") => data' = Append(data, coords)
C7_OnePathPerPhoton == []C7_PathsInv /\ [][C7_AppendOnly]_vars

\* trace has returned the paths of two photons of two steps each.
C7_Witness ==
    /\ pc = "returned"
    /\ Len(result.paths) = 2
    /\ n_events = 2
    /\ Len(result.paths[2]) = 3

\* C8: when tracing one photon ends in the no-intersection condition, trace
\* still returns the paths of the other photons.
C8_FailureIsConfined ==
    (pc = "raised" /\ Len(p_in) > 1) =>
        /\ result.tag = "Paths"
        /\ \A k \in DOMAIN p_in \ {pi} :
               \E j \in DOMAIN result.paths :
                   result.paths[j][1] = p_in[k].pos

\* C9: _norm never turns a zero-length vector into NaN: where
\* _find_intersections normalizes the offset of a strike point that is the
\* surface's anchor itself, the result has no NaN component.
C9_NormRejectsZeroVector ==
    \A k \in DOMAIN befores : \A w \in DOMAIN surfs :
        LET p    == befores[k]
            t    == _intersect_time(p, surfs[w])
            dist == VSub(Strike(p, surfs[w]), surfs[w].pos)
        IN  (/\ ~FLt(t, Zero)
             /\ ~FGt(_vector_len(dist), surfs[w].length)
             /\ IsZero(_vector_len(dist)))
            => ~HasNaN(_norm(dist))

\* C10: in the mirrored rectangle of create_boundaries, a photon that starts
\* strictly inside finds a hit in every step and is strictly inside after
\* every step.
C10_EnclosedPhotonStaysInside ==
    (/\ surfs = create_boundaries(Boundaries, TRUE)
     /\ pc \in {"inner", "raised"}
     /\ StrictlyInside(p_in[pi].pos))
    => /\ pc # "raised"
       /\ \A j \in DOMAIN coords : StrictlyInside(coords[j])
====
